---- MODULE Spec2Model ----
(***************************************************************************)
(* transmission_cleanup.py: the three commands of the cleanup tool         *)
(* (cleanup_torrentsdir, cleanup_incompletedir, remove_finished) as a      *)
(* state machine over the torrents directory, the incomplete directory     *)
(* and the daemon's task list.                                             *)
(***************************************************************************)
EXTENDS Integers, Sequences, FiniteSets, TLC

(***************************************************************************)
(* Bounds                                                                  *)
(***************************************************************************)
\* most tasks the daemon holds when a command starts
MaxTasks == 3
\* most tasks the daemon holds when a command starts beside a working daemon
MaxConcTasks == 1
\* most tasks the daemon adds while a command runs
MaxAdds == 1
\* tasks on the daemon's list when a command is run twice
MaxTwiceTasks == 2

(***************************************************************************)
(* Values                                                                  *)
(***************************************************************************)
TorrentsDir == "torrents"
IncompleteDir == "incomplete"

\* names a descriptor file of the torrents directory can have, in the order
\* the directory yields them
NameOrder == <<"a.torrent", "b.torrent", "c.torrent", "n.txt">>
FileNames == {NameOrder[i] : i \in 1..Len(NameOrder)}
\* the names the daemon gives the descriptor files it writes
DescriptorNames == {"a.torrent", "b.torrent", "c.torrent"}

\* what a path of the torrents directory holds: nothing, a .torrent body
\* with an info dictionary, a body with a magnet-info dictionary, or bytes
\* that bencodepy.decode rejects
NoFile == [kind |-> "absent", data |-> ""]
Garbage == [kind |-> "garbage", data |-> ""]
Contents == {[kind |-> "torrent", data |-> "i1"],
             [kind |-> "torrent", data |-> "i2"],
             [kind |-> "magnet", data |-> "x1"],
             Garbage}
\* what the file that is no descriptor by its name holds
OtherContents == {NoFile, [kind |-> "torrent", data |-> "i1"]}

\* sha1(bencode(info)).hexdigest(): lowercase hex, one digest per info dict
SHA1Hex(info) == CASE info = "i1" -> "aa"
                   [] info = "i2" -> "bb"
                   [] OTHER -> "cc"

\* bytes.hex(): lowercase hex of the raw 20 bytes
BytesHex(b) == CASE b = "x1" -> "aa"
                 [] OTHER -> "dd"

\* str.lower() on the hex strings of the model
Lower(s) == CASE s = "AA" -> "aa"
              [] s = "BB" -> "bb"
              [] OTHER -> s

\* os.path.join(dir, name) and os.path.basename(path)
Join(dir, name) == <<dir, name>>
Basename(path) == path[Len(path)]


(***************************************************************************)
(* The daemon's tasks                                                      *)
(***************************************************************************)
HashOrder == <<"aa", "AA", "bb">>
TorrentFileOrder == <<Join(TorrentsDir, "a.torrent"), Join(TorrentsDir, "b.torrent"),
                      Join(TorrentsDir, "z.torrent")>>
StatusOrder == <<"stopped", "downloading", "seeding">>

\* a task as the daemon holds it; each command queries some of the fields
Task(i, h, tf, n, st, fin, dd) ==
    [id |-> i, hashString |-> h, torrentFile |-> tf, name |-> n,
     status |-> st, isFinished |-> fin, doneDate |-> dd]

\* the lists of at most MaxTasks numbers of 0..(n-1), in non-decreasing order:
\* one representative of every multiset of task kinds
KindLists(n) ==
    {s \in UNION {[1..len -> 0..(n - 1)] : len \in 0..MaxTasks} :
        \A i \in 1..Len(s) : \A j \in 1..Len(s) : i < j => s[i] <= s[j]}

\* the task lists cleanup_torrentsdir is run against
TorTask(i, k) == Task(i, HashOrder[(k \div 3) + 1], TorrentFileOrder[(k % 3) + 1],
                      <<"x">>, "stopped", FALSE, 0)
TorTaskLists == {[i \in 1..Len(s) |-> TorTask(i, s[i])] : s \in KindLists(9)}

\* entry names of the incomplete directory and display names of tasks, as
\* lists of pieces: a name ends with '.part' when its last piece is ".part"
IncOrder == <<(<<"x">>), <<"x", ".part">>, <<"y", ".part">>, <<"x", ".part", ".part">>>>
IncNames == {IncOrder[i] : i \in 1..Len(IncOrder)}
DisplayNameOrder == <<(<<"x">>), <<"x", ".part">>, (<<"y">>)>>

\* the task lists cleanup_incompletedir is run against
IncTask(i, k) == Task(i, "aa", Join(TorrentsDir, "z.torrent"), DisplayNameOrder[k + 1],
                      "downloading", FALSE, 0)
IncTaskLists == {[i \in 1..Len(s) |-> IncTask(i, s[i])] : s \in KindLists(3)}

\* the task lists remove_finished is run against
BoolOrder == <<FALSE, TRUE>>
DoneDateOrder == <<0, 1700000000>>
FinTask(i, k) == Task(i, "aa", Join(TorrentsDir, "z.torrent"), <<"x">>,
                      StatusOrder[(k \div 4) + 1], BoolOrder[((k \div 2) % 2) + 1],
                      DoneDateOrder[(k % 2) + 1])
FinTaskLists == {[i \in 1..Len(s) |-> FinTask(i, s[i])] : s \in KindLists(12)}

(***************************************************************************)
(* State                                                                   *)
(***************************************************************************)
VARIABLES
    cmd,             \* the command the process runs
    dryrun,          \* the --dryrun flag
    delete_data,     \* remove_finished: the --delete-data flag
    env,             \* "faulty": removals and queries can fail; "quiet": they do not
    pc,              \* position of the process in the command
    dir_exists,      \* whether the torrents directory exists
    fs,              \* torrents directory: file name -> content
    inc,             \* incomplete directory: entry name -> "file", "dir" or "none"
    tasks,           \* the daemon's task list
    tor_filenames,   \* cleanup_torrentsdir: os.listdir(torrents_dir)
    file_entries,    \* cleanup_torrentsdir: the _FileEntry list, in insertion order
    torrents,        \* the task list the query returned
    drift_torrents,  \* cleanup_torrentsdir: tasks linked to no file
    remove_list,     \* cleanup_torrentsdir: paths to remove
    new_items_count, \* cleanup_torrentsdir: line 151
    exists_nodes,    \* cleanup_incompletedir: the IncompleteItem list
    names,           \* cleanup_incompletedir: the display names of the tasks
    finished,        \* remove_finished: ids of the tasks classified finished
    pos,             \* index of the loop the process is in
    attempted,       \* paths remove() was called with, in order
    removed,         \* paths the process deleted from the file system
    printed,         \* paths of the 'removed ...' lines printed
    missed,          \* paths remove() found already absent
    rpc_calls,       \* remove_torrent calls issued to the daemon
    victims,         \* ids of the added tasks whose artifact the process deleted
    daemon,          \* the task the daemon is adding, and how far it got
    adds,            \* tasks the daemon added since the command started
    written_by,      \* path -> id of the added task that wrote it, 0 for none
    late,            \* ids of the tasks added after the listing began
    outcome,         \* how the command ended
    log,             \* the calls of the run that read or change the world, in order
    hist             \* the run number, the world at the start, and the first run

vars == <<cmd, dryrun, delete_data, pc, dir_exists, fs, inc, tasks, tor_filenames,
          file_entries, torrents, drift_torrents, remove_list, new_items_count,
          exists_nodes, names, finished, pos, attempted, removed, printed,
          missed, rpc_calls, victims, daemon, adds, written_by, late, outcome,
          env, log, hist>>

\* the flags, the command and the kind of environment never change
flags == <<cmd, dryrun, delete_data, env>>
\* the world outside the process
world == <<dir_exists, fs, inc, tasks>>
\* what the process did to the world and printed
effects == <<attempted, removed, printed, missed, rpc_calls, victims>>
\* the daemon's work on a new task
daemon_vars == <<daemon, adds, written_by, late>>

AllPaths == {Join(TorrentsDir, n) : n \in FileNames}
                \cup {Join(IncompleteDir, n) : n \in IncNames}
\* no first run yet
NoRun == [ended |-> "none", stage |-> "none", outcome |-> "none", targets |-> {},
          removed |-> {}]

Idle == [busy |-> FALSE, task |-> Task(0, "", <<>>, <<>>, "", FALSE, 0),
         written |-> FALSE, registered |-> FALSE]

InitRun ==
    /\ pc = "start"
    /\ tor_filenames = <<>>
    /\ file_entries = <<>>
    /\ torrents = <<>>
    /\ drift_torrents = <<>>
    /\ remove_list = <<>>
    /\ new_items_count = 0
    /\ exists_nodes = <<>>
    /\ names = {}
    /\ finished = <<>>
    /\ pos = 1
    /\ attempted = <<>>
    /\ removed = {}
    /\ printed = <<>>
    /\ missed = {}
    /\ rpc_calls = <<>>
    /\ victims = {}
    /\ daemon = Idle
    /\ adds = 0
    /\ written_by = [p \in AllPaths |-> 0]
    /\ late = {}
    /\ outcome = "running"
    /\ log = <<>>
    /\ hist = [run |-> 1, fs0 |-> fs, inc0 |-> inc, stage |-> "none", first |-> NoRun]

NoTorrentsDir == [n \in FileNames |-> NoFile]
NoIncompleteDir == [n \in IncNames |-> "none"]

InitTorrentsdir ==
    /\ cmd = "cleanup_torrentsdir"
    /\ dryrun \in BOOLEAN
    /\ delete_data = FALSE
    /\ dir_exists \in BOOLEAN
    /\ fs \in [FileNames -> Contents \cup {NoFile}]
    /\ fs["n.txt"] \in OtherContents
    /\ ~dir_exists => fs = NoTorrentsDir
    /\ inc = NoIncompleteDir
    /\ tasks \in TorTaskLists
    /\ InitRun

InitIncompletedir ==
    /\ cmd = "cleanup_incompletedir"
    /\ dryrun \in BOOLEAN
    /\ delete_data = FALSE
    /\ dir_exists = TRUE
    /\ fs = NoTorrentsDir
    /\ inc \in [IncNames -> {"file", "dir", "other", "none"}]
    /\ tasks \in IncTaskLists
    /\ InitRun

InitFinished ==
    /\ cmd = "remove_finished"
    /\ dryrun \in BOOLEAN
    /\ delete_data \in BOOLEAN
    /\ dir_exists = TRUE
    /\ fs = NoTorrentsDir
    /\ inc = NoIncompleteDir
    /\ tasks \in FinTaskLists
    /\ InitRun

Init ==
    /\ env = "faulty"
    /\ InitTorrentsdir \/ InitIncompletedir \/ InitFinished

(***************************************************************************)
(* cleanup_torrentsdir                                                     *)
(***************************************************************************)
\* a listing that still names the entries that are gone
ListDirStale(dir) == NameOrder

\* os.listdir(torrents_dir): the names present, in directory order
ListDir(dir) == SelectSeq(NameOrder, LAMBDA n : dir[n] # NoFile)

\* lines 104-110: the lowercase info hash of a decoded descriptor body
InfoHashOf(tor_body) ==
    Lower(IF tor_body.kind = "magnet"
          THEN BytesHex(tor_body.data)
          ELSE SHA1Hex(tor_body.data))

\* _FileEntry
FileEntry(name, info_hash) == [name |-> name, info_hash |-> info_hash, torrents |-> <<>>]
Path(e) == Join(TorrentsDir, e.name)

\* lines 76-80
TorListDir ==
    /\ cmd = "cleanup_torrentsdir"
    /\ pc = "start"
    /\ IF dir_exists
       THEN /\ tor_filenames' = ListDir(fs)
            /\ pc' = "read"
            /\ outcome' = outcome
       ELSE /\ tor_filenames' = tor_filenames
            /\ pc' = "done"
            /\ outcome' = "unable_list"
    /\ log' = Append(log, "listdir")
    /\ UNCHANGED <<flags, hist, daemon_vars, world, file_entries, torrents, drift_torrents, remove_list,
                   new_items_count, exists_nodes, names, finished, pos, effects>>

\* line 103 with every file taken for a descriptor
DecodesAnything(content) == TRUE

\* line 103: bencodepy.decode returns
Decodes(content) == content # Garbage

\* lines 102-109: the exception reading the file raises, "none" when it is read
ReadRaises(content) ==
    IF content = NoFile THEN "FileNotFoundError"
    ELSE IF ~Decodes(content) THEN "DecodeError"
    ELSE "none"

\* lines 97-113, one file per step; an exception ends the process
TorReadFile ==
    /\ cmd = "cleanup_torrentsdir"
    /\ pc = "read"
    /\ pos <= Len(tor_filenames)
    /\ LET name == tor_filenames[pos]
       IN IF ReadRaises(fs[name]) = "none"
          THEN /\ file_entries' = Append(file_entries,
                                         FileEntry(name, InfoHashOf(fs[name])))
               /\ pc' = pc
               /\ outcome' = outcome
          ELSE /\ file_entries' = file_entries
               /\ pc' = "crashed"
               /\ outcome' = ReadRaises(fs[name])
    /\ pos' = pos + 1
    /\ log' = Append(log, "open")
    /\ UNCHANGED <<flags, hist, daemon_vars, world, tor_filenames, torrents,
                   drift_torrents, remove_list, new_items_count, exists_nodes, names,
                   finished, effects>>

\* how a get_torrents call can end
QueryResults == IF env = "faulty" THEN {"ok", "fail"} ELSE {"ok"}

\* the query issued while files of the listing are still unread
QueryReadyEarly(n_read, n_listed) == n_read >= 1

\* lines 97, 117: the loop over the listing is over when the query is issued
QueryReady(n_read, n_listed) == n_read = n_listed

\* line 117: the query, after the last file was read; its failure ends the
\* process
TorQuery ==
    /\ cmd = "cleanup_torrentsdir"
    /\ pc = "read"
    /\ QueryReady(pos - 1, Len(tor_filenames))
    /\ \E r \in QueryResults :
        IF r = "ok"
        THEN torrents' = tasks /\ pc' = "reconcile" /\ outcome' = outcome
        ELSE torrents' = torrents /\ pc' = "crashed" /\ outcome' = "QueryError"
    /\ log' = Append(log, "get_torrents")
    /\ UNCHANGED <<flags, hist, daemon_vars, world, tor_filenames, file_entries,
                   drift_torrents, remove_list, new_items_count, exists_nodes, names,
                   finished, pos, effects>>

\* file_entries.get(tfn): the index of the entry named tfn, 0 when there is none
EntryIndex(entries, tfn) ==
    IF \E i \in 1..Len(entries) : entries[i].name = tfn
    THEN CHOOSE i \in 1..Len(entries) : entries[i].name = tfn
    ELSE 0

\* file_entries_by_infohash.get(info_hash, ()): indices in insertion order
ByInfohash(entries, info_hash) ==
    SelectSeq([i \in 1..Len(entries) |-> i], LAMBDA i : entries[i].info_hash = info_hash)

AppendTorrent(entries, i, tor) ==
    [entries EXCEPT ![i].torrents = Append(@, tor)]

\* lines 119-129 with the info hash looked up before the file name
LinkOneHashFirst(st, tor) ==
    LET info_hash == Lower(tor.hashString)
        tfn == Basename(tor.torrentFile)
        fe == EntryIndex(st.entries, tfn)
        fels == ByInfohash(st.entries, info_hash)
    IN IF Len(fels) = 1
       THEN [st EXCEPT !.entries = AppendTorrent(st.entries, fels[1], tor)]
       ELSE IF fe # 0
            THEN [st EXCEPT !.entries = AppendTorrent(st.entries, fe, tor)]
            ELSE [st EXCEPT !.drift = Append(st.drift, tor)]

\* lines 119-129: one remote task
LinkOne(st, tor) ==
    LET info_hash == Lower(tor.hashString)
        tfn == Basename(tor.torrentFile)
        fe == EntryIndex(st.entries, tfn)
        fels == ByInfohash(st.entries, info_hash)
    IN IF fe # 0
       THEN [st EXCEPT !.entries = AppendTorrent(st.entries, fe, tor)]
       ELSE IF Len(fels) = 1
            THEN [st EXCEPT !.entries = AppendTorrent(st.entries, fels[1], tor)]
            ELSE [st EXCEPT !.drift = Append(st.drift, tor)]

\* lines 118-129
RECURSIVE LinkLoop(_, _)
LinkLoop(st, tors) ==
    IF tors = <<>> THEN st ELSE LinkLoop(LinkOne(st, Head(tors)), Tail(tors))

\* the info hashes of the listing, and line 134: those of more than one file
InfoHashes(entries) == {entries[i].info_hash : i \in 1..Len(entries)}
Dupih(entries) == {h \in InfoHashes(entries) : Len(ByInfohash(entries, h)) > 1}

RECURSIVE SumLinks(_, _)
SumLinks(entries, idx) ==
    IF idx = <<>> THEN 0
    ELSE Len(entries[Head(idx)].torrents) + SumLinks(entries, Tail(idx))

\* the filter 'if not e.torrents' left out
UnlinkedKeepsAll(entries) == entries

\* the filter of line 150 turned round: 'if e.torrents'
UnlinkedInverted(entries) == SelectSeq(entries, LAMBDA e : e.torrents # <<>>)

\* lines 143, 150: the entries no task is linked to
Unlinked(entries) == SelectSeq(entries, LAMBDA e : e.torrents = <<>>)
Paths(entries) == [i \in 1..Len(entries) |-> Path(entries[i])]

\* lines 132-143: remove_list as the duplicate report leaves it
DupRemoveList(entries) ==
    Paths(SelectSeq(entries, LAMBDA e :
        /\ e.info_hash \in Dupih(entries)
        /\ SumLinks(entries, ByInfohash(entries, e.info_hash)) = 1
        /\ e.torrents = <<>>))

\* line 150 left out: only the duplicates' list is kept
AllUnlinkedPathsOnlyDup(entries) == DupRemoveList(entries)

\* line 150
AllUnlinkedPaths(entries) == Paths(Unlinked(entries))

\* line 145: the run stops on drift
DriftAborts(drift) == drift # <<>>

\* line 151 with the files added and the removals subtracted
NewItemsCountSwapped(n_torrents, n_remove, n_files) == n_torrents + n_files - n_remove

\* line 151
NewItemsCount(n_torrents, n_remove, n_files) == n_torrents + n_remove - n_files

\* the check of line 152 left out
ConservationAlways(count) == TRUE

\* line 152
ConservationHolds(count) == count = 0

\* the removal loop entered whatever the drift list holds
RemovalProceedsOnDrift(drift, count) ==
    IF DriftAborts(drift) THEN TRUE ELSE ConservationHolds(count)

\* lines 145, 149, 152: the removal loop of lines 153-154 is entered
RemovalProceeds(drift, count) ==
    IF DriftAborts(drift) THEN FALSE ELSE ConservationHolds(count)

\* lines 116-156 up to the removal loop
TorReconcile ==
    /\ cmd = "cleanup_torrentsdir"
    /\ pc = "reconcile"
    /\ LET st == LinkLoop([entries |-> file_entries, drift |-> <<>>], torrents)
           rl == IF DriftAborts(st.drift)
                 THEN DupRemoveList(st.entries)
                 ELSE AllUnlinkedPaths(st.entries)
           cnt == NewItemsCount(Len(torrents), Len(rl), Len(tor_filenames))
       IN /\ file_entries' = st.entries
          /\ drift_torrents' = st.drift
          /\ remove_list' = rl
          /\ new_items_count' = IF DriftAborts(st.drift) THEN new_items_count ELSE cnt
          /\ IF RemovalProceeds(st.drift, cnt)
             THEN pc' = "remove" /\ outcome' = outcome
             ELSE /\ pc' = "done"
                  /\ outcome' = IF DriftAborts(st.drift) THEN "drift" ELSE "new_items"
    /\ pos' = 1
    /\ UNCHANGED <<flags, hist, log, daemon_vars, world, tor_filenames, torrents, exists_nodes, names,
                   finished, effects>>


(***************************************************************************)
(* remove                                                                  *)
(***************************************************************************)
\* what another process, or the file system, does to the target while
\* remove() runs: nothing; the target is deleted before remove() looks at it
\* ("gone") or between the look and the unlink ("race"); the unlink is refused
RemoveEvents == {"none", "gone", "race", "denied"}

\* os.path.isfile / os.path.isdir: what is at the path
KindAt(path) ==
    IF path[1] = TorrentsDir
    THEN IF fs[path[2]] # NoFile THEN "file" ELSE "none"
    ELSE inc[path[2]]

\* lines 45, 52: isfile(path) or isdir(path), as the event leaves the path
Seen(path, ev) == KindAt(path) \in {"file", "dir"} /\ ev # "gone"

\* the dryrun test of lines 47, 54 left out
RemoveUnlinksAlways(seen, dry) == seen

\* lines 47, 54: os.unlink / shutil.rmtree is called
RemoveUnlinks(seen, dry) == seen /\ ~dry

\* what the unlink raises
Raised(path, ev) ==
    IF ~RemoveUnlinks(Seen(path, ev), dryrun) THEN "none"
    ELSE IF ev = "race" THEN "FileNotFoundError"
    ELSE IF ev = "denied" THEN "PermissionError"
    ELSE "none"

\* the except clauses of lines 50, 57 left out
RemoveCatchesNothing(exc) == FALSE

\* lines 50, 57: the except clauses
RemoveCatches(exc) == exc = "FileNotFoundError"

\* the exception remove() lets out, "none" when it returns
RemoveRaises(path, ev) ==
    IF RemoveCatches(Raised(path, ev)) THEN "none" ELSE Raised(path, ev)

\* lines 49, 56: the 'removed ...' line is printed
RemovePrints(path, ev) == Seen(path, ev) /\ Raised(path, ev) = "none"

\* the path with nothing at it
\* an unlink that leaves the entry in its directory
WithoutKeeps(dir, name, nothing) == dir

\* lines 48, 55: the directory with the entry unlinked
Without(dir, name, nothing) == [dir EXCEPT ![name] = nothing]

\* lines 44-58, with the event ev happening during the call
Remove(path, ev) ==
    LET present == KindAt(path) \in {"file", "dir"}
        deletes == RemoveUnlinks(Seen(path, ev), dryrun) /\ Raised(path, ev) = "none"
        vanishes == deletes \/ (present /\ ev \in {"gone", "race"})
        notfound == \/ KindAt(path) = "none"
                    \/ ev = "gone"
                    \/ Raised(path, ev) = "FileNotFoundError"
    IN /\ ev # "none" => present /\ env = "faulty"
       /\ ev = "denied" => ~dryrun
       /\ log' = Append(log, "remove")
       /\ attempted' = Append(attempted, path)
       /\ removed' = IF deletes THEN removed \cup {path} ELSE removed
       /\ printed' = IF RemovePrints(path, ev) THEN Append(printed, path) ELSE printed
       /\ missed' = IF notfound THEN missed \cup {path} ELSE missed
       /\ fs' = IF vanishes /\ path[1] = TorrentsDir
                THEN Without(fs, path[2], NoFile) ELSE fs
       /\ inc' = IF vanishes /\ path[1] = IncompleteDir
                 THEN Without(inc, path[2], "none") ELSE inc
       /\ victims' = IF deletes /\ written_by[path] # 0
                     THEN victims \cup {written_by[path]} ELSE victims
       /\ UNCHANGED <<dir_exists, tasks, rpc_calls>>

\* lines 153-154: one target per step; an exception ends the process
TorRemove ==
    /\ cmd = "cleanup_torrentsdir"
    /\ pc = "remove"
    /\ pos <= Len(remove_list)
    /\ \E ev \in RemoveEvents :
        /\ Remove(remove_list[pos], ev)
        /\ IF RemoveRaises(remove_list[pos], ev) = "none"
           THEN pc' = pc /\ outcome' = outcome
           ELSE pc' = "crashed" /\ outcome' = RemoveRaises(remove_list[pos], ev)
    /\ pos' = pos + 1
    /\ UNCHANGED <<flags, hist, daemon_vars, tor_filenames, file_entries, torrents,
                   drift_torrents, remove_list, new_items_count, exists_nodes, names,
                   finished>>

\* the loop of lines 153-154 is over
TorFinish ==
    /\ cmd = "cleanup_torrentsdir"
    /\ pc = "remove"
    /\ pos > Len(remove_list)
    /\ pc' = "done"
    /\ outcome' = "completed"
    /\ UNCHANGED <<flags, hist, log, daemon_vars, world, tor_filenames, file_entries, torrents, drift_torrents,
                   remove_list, new_items_count, exists_nodes, names, finished, pos,
                   effects>>

(***************************************************************************)
(* cleanup_incompletedir                                                   *)
(***************************************************************************)
EndsWithPart(name) == Len(name) > 0 /\ name[Len(name)] = ".part"
StripPart(name) == SubSeq(name, 1, Len(name) - 1)

\* lines 28-34 with the name kept as it is on disk
IncompleteItemRaw(incomplete_dir, name) ==
    [path |-> Join(incomplete_dir, name), name |-> name]

\* lines 28-34
IncompleteItem(incomplete_dir, name) ==
    [path |-> Join(incomplete_dir, name),
     name |-> IF EndsWithPart(name) THEN StripPart(name) ELSE name]

\* os.listdir(incomplete_dir)
ListIncDir(dir) == SelectSeq(IncOrder, LAMBDA n : dir[n] # "none")

\* lines 36-39
collect_incomplete_items(dir) ==
    [i \in 1..Len(ListIncDir(dir)) |-> IncompleteItem(IncompleteDir, ListIncDir(dir)[i])]

\* line 65
IncListDir ==
    /\ cmd = "cleanup_incompletedir"
    /\ pc = "start"
    /\ exists_nodes' = collect_incomplete_items(inc)
    /\ pc' = "query"
    /\ log' = Append(log, "listdir")
    /\ UNCHANGED <<flags, hist, daemon_vars, world, tor_filenames, file_entries, torrents, drift_torrents,
                   remove_list, new_items_count, names, finished, pos, effects, outcome>>

\* lines 67-69
IncQuery ==
    /\ cmd = "cleanup_incompletedir"
    /\ pc = "query"
    /\ \E r \in QueryResults :
        IF r = "ok"
        THEN /\ torrents' = tasks
             /\ names' = {tasks[i].name : i \in 1..Len(tasks)}
             /\ pc' = "remove"
             /\ outcome' = outcome
        ELSE /\ UNCHANGED <<torrents, names>>
             /\ pc' = "crashed"
             /\ outcome' = "QueryError"
    /\ log' = Append(log, "get_torrents")
    /\ UNCHANGED <<flags, hist, daemon_vars, world, tor_filenames, file_entries,
                   drift_torrents, remove_list, new_items_count, exists_nodes, finished,
                   pos, effects>>

\* line 72
IncSelects(item, display_names) == item.name \notin display_names

\* lines 71-73: one item per step
IncRemove ==
    /\ cmd = "cleanup_incompletedir"
    /\ pc = "remove"
    /\ pos <= Len(exists_nodes)
    /\ LET item == exists_nodes[pos]
       IN IF IncSelects(item, names)
          THEN \E ev \in RemoveEvents :
                /\ Remove(item.path, ev)
                /\ IF RemoveRaises(item.path, ev) = "none"
                   THEN pc' = pc /\ outcome' = outcome
                   ELSE pc' = "crashed" /\ outcome' = RemoveRaises(item.path, ev)
          ELSE UNCHANGED <<world, effects, pc, outcome, log>>
    /\ pos' = pos + 1
    /\ UNCHANGED <<flags, hist, daemon_vars, tor_filenames, file_entries, torrents, drift_torrents,
                   remove_list, new_items_count, exists_nodes, names, finished>>

IncFinish ==
    /\ cmd = "cleanup_incompletedir"
    /\ pc = "remove"
    /\ pos > Len(exists_nodes)
    /\ pc' = "done"
    /\ outcome' = "completed"
    /\ UNCHANGED <<flags, hist, log, daemon_vars, world, tor_filenames, file_entries, torrents, drift_torrents,
                   remove_list, new_items_count, exists_nodes, names, finished, pos,
                   effects>>

(***************************************************************************)
(* remove_finished                                                         *)
(***************************************************************************)
\* line 238
FinQuery ==
    /\ cmd = "remove_finished"
    /\ pc = "start"
    /\ \E r \in QueryResults :
        IF r = "ok"
        THEN torrents' = tasks /\ pc' = "classify" /\ outcome' = outcome
        ELSE torrents' = torrents /\ pc' = "crashed" /\ outcome' = "QueryError"
    /\ log' = Append(log, "get_torrents")
    /\ UNCHANGED <<flags, hist, daemon_vars, world, tor_filenames, file_entries,
                   drift_torrents, remove_list, new_items_count, exists_nodes, names,
                   finished, pos, effects>>

\* lines 241-245
IsFinished(torrent) ==
    IF torrent.isFinished /\ torrent.status = "stopped" THEN TRUE
    ELSE torrent.doneDate > 0

\* lines 239-245
Finished(tors) ==
    LET fin == SelectSeq(tors, IsFinished)
    IN [i \in 1..Len(fin) |-> fin[i].id]

\* line 247
CallsRemoveTorrent(fin, dry) == fin # <<>> /\ ~dry

\* lines 239-248; remove_torrent takes the listed tasks off the daemon's list
FinRemove ==
    /\ cmd = "remove_finished"
    /\ pc = "classify"
    /\ finished' = Finished(torrents)
    /\ IF CallsRemoveTorrent(Finished(torrents), dryrun)
       THEN /\ rpc_calls' = Append(rpc_calls, [ids |-> Finished(torrents),
                                              delete_data |-> delete_data])
            /\ log' = Append(log, "remove_torrent")
            /\ tasks' = SelectSeq(tasks, LAMBDA t :
                            \A i \in 1..Len(Finished(torrents)) : Finished(torrents)[i] # t.id)
       ELSE UNCHANGED <<rpc_calls, tasks, log>>
    /\ pc' = "done"
    /\ outcome' = "completed"
    /\ UNCHANGED <<flags, hist, daemon_vars, dir_exists, fs, inc, tor_filenames, file_entries, torrents,
                   drift_torrents, remove_list, new_items_count, exists_nodes, names,
                   pos, attempted, removed, printed, missed, victims>>

(***************************************************************************)
(* The daemon adding a task while a command runs                           *)
(***************************************************************************)
Live == pc \notin {"done", "crashed"}

\* the tasks the daemon can be asked to add: the descriptor of a task is
\* written under a name of the torrents directory, its payload under its
\* display name
NewTasks(id) ==
    IF cmd = "cleanup_torrentsdir"
    THEN {Task(id, h, Join(TorrentsDir, n), <<"x">>, "downloading", FALSE, 0) :
            h \in {"aa", "bb"}, n \in DescriptorNames}
    ELSE {Task(id, "aa", Join(TorrentsDir, "z.torrent"), n, "downloading", FALSE, 0) :
            n \in {<<"x">>, <<"y">>}}

\* the descriptor the daemon writes for a task
DescriptorOf(t) ==
    [kind |-> "torrent", data |-> IF Lower(t.hashString) = "aa" THEN "i1" ELSE "i2"]

\* the payload entry of a task that is downloading
PayloadOf(t) == Append(t.name, ".part")

\* the daemon takes the request to add a task
DaemonAdd ==
    /\ cmd \in {"cleanup_torrentsdir", "cleanup_incompletedir"}
    /\ Live
    /\ ~daemon.busy
    /\ adds < MaxAdds
    /\ \E t \in NewTasks(MaxTasks + adds + 1) :
        /\ daemon' = [busy |-> TRUE, task |-> t, written |-> FALSE, registered |-> FALSE]
        /\ late' = IF pc # "start" THEN late \cup {t.id} ELSE late
    /\ adds' = adds + 1
    /\ UNCHANGED <<flags, hist, log, world, pc, tor_filenames, file_entries, torrents,
                   drift_torrents, remove_list, new_items_count, exists_nodes, names,
                   finished, pos, effects, written_by, outcome>>

AfterStep(d) == IF d.written /\ d.registered THEN Idle ELSE d

\* the daemon writes the descriptor file, or the payload entry, of the task
DaemonWrite ==
    /\ Live
    /\ daemon.busy
    /\ ~daemon.written
    /\ IF cmd = "cleanup_torrentsdir"
       THEN /\ fs' = [fs EXCEPT ![Basename(daemon.task.torrentFile)] =
                                    DescriptorOf(daemon.task)]
            /\ written_by' = [written_by EXCEPT ![daemon.task.torrentFile] =
                                                    daemon.task.id]
            /\ inc' = inc
       ELSE /\ inc' = [inc EXCEPT ![PayloadOf(daemon.task)] = "file"]
            /\ written_by' = [written_by EXCEPT
                                ![Join(IncompleteDir, PayloadOf(daemon.task))] =
                                    daemon.task.id]
            /\ fs' = fs
    /\ daemon' = AfterStep([daemon EXCEPT !.written = TRUE])
    /\ UNCHANGED <<flags, hist, log, dir_exists, tasks, pc, tor_filenames, file_entries, torrents,
                   drift_torrents, remove_list, new_items_count, exists_nodes, names,
                   finished, pos, effects, adds, late, outcome>>

\* the daemon puts the task on its list
DaemonRegister ==
    /\ Live
    /\ daemon.busy
    /\ ~daemon.registered
    /\ tasks' = Append(tasks, daemon.task)
    /\ daemon' = AfterStep([daemon EXCEPT !.registered = TRUE])
    /\ UNCHANGED <<flags, hist, log, dir_exists, fs, inc, pc, tor_filenames, file_entries,
                   torrents, drift_torrents, remove_list, new_items_count,
                   exists_nodes, names, finished, pos, effects, adds, written_by,
                   late, outcome>>

(***************************************************************************)
(* The operator: an interrupt, and the same command once more              *)
(***************************************************************************)
Range(seq) == {seq[i] : i \in 1..Len(seq)}

Tor == cmd = "cleanup_torrentsdir"

\* the run reached its removal loop (lines 71, 152-153)
Classified ==
    \/ pc = "remove"
    \/ outcome \in {"completed", "PermissionError"}
    \/ pc = "interrupted" /\ hist.stage = "remove"

\* cleanup_torrentsdir entered its removal loop
CheckPassed == Tor /\ Classified

\* the paths cleanup_torrentsdir hands to remove()
DeletionSet == IF CheckPassed THEN Range(remove_list) ELSE {}

\* the paths the removal loop of the command is to call remove() with
Targets ==
    IF Tor THEN DeletionSet
    ELSE IF Classified
    THEN {item.path : item \in {i \in Range(exists_nodes) : IncSelects(i, names)}}
    ELSE {}

\* KeyboardInterrupt between two steps of a run ends the process
Interrupt ==
    /\ pc \notin {"done", "crashed", "interrupted"}
    /\ pc' = "interrupted"
    /\ hist' = [hist EXCEPT !.stage = pc]
    /\ UNCHANGED <<flags, log, daemon_vars, world, tor_filenames, file_entries, torrents,
                   drift_torrents, remove_list, new_items_count, exists_nodes, names,
                   finished, pos, effects, outcome>>

\* the operator starts the same command again: a new process, the same
\* directories and daemon
Rerun ==
    /\ pc \in {"done", "crashed", "interrupted"}
    /\ hist.run = 1
    /\ hist' = [hist EXCEPT !.run = 2, !.stage = "none",
                            !.first = [ended |-> pc, stage |-> hist.stage,
                                       outcome |-> outcome, targets |-> Targets,
                                       removed |-> removed]]
    /\ pc' = "start"
    /\ tor_filenames' = <<>>
    /\ file_entries' = <<>>
    /\ torrents' = <<>>
    /\ drift_torrents' = <<>>
    /\ remove_list' = <<>>
    /\ new_items_count' = 0
    /\ exists_nodes' = <<>>
    /\ names' = {}
    /\ finished' = <<>>
    /\ pos' = 1
    /\ attempted' = <<>>
    /\ removed' = {}
    /\ printed' = <<>>
    /\ missed' = {}
    /\ rpc_calls' = <<>>
    /\ victims' = {}
    /\ outcome' = "running"
    /\ log' = <<>>
    /\ UNCHANGED <<flags, daemon_vars, world>>

(***************************************************************************)
(* Specification                                                           *)
(***************************************************************************)
Next ==
    \/ TorListDir
    \/ TorReadFile
    \/ TorQuery
    \/ TorReconcile
    \/ TorRemove
    \/ TorFinish
    \/ IncListDir
    \/ IncQuery
    \/ IncRemove
    \/ IncFinish
    \/ FinQuery
    \/ FinRemove

Spec == Init /\ [][Next]_vars


\* a cleanup command beside a daemon that adds tasks
InitConc ==
    /\ env = "quiet"
    /\ \/ InitTorrentsdir /\ dir_exists
       \/ InitIncompletedir
    /\ Len(tasks) <= MaxConcTasks

NextConc ==
    \/ TorListDir
    \/ TorReadFile
    \/ TorQuery
    \/ TorReconcile
    \/ TorRemove
    \/ TorFinish
    \/ IncListDir
    \/ IncQuery
    \/ IncRemove
    \/ IncFinish
    \/ DaemonAdd
    \/ DaemonWrite
    \/ DaemonRegister

SpecConc == InitConc /\ [][NextConc]_vars

\* a cleanup command run twice by an operator who may interrupt it, nothing
\* else touching the directories or the daemon
InitTwice ==
    /\ env = "quiet"
    /\ \/ InitTorrentsdir /\ dir_exists
       \/ InitIncompletedir
    /\ Len(tasks) <= MaxTwiceTasks

NextTwice ==
    \/ TorListDir
    \/ TorReadFile
    \/ TorQuery
    \/ TorReconcile
    \/ TorRemove
    \/ TorFinish
    \/ IncListDir
    \/ IncQuery
    \/ IncRemove
    \/ IncFinish
    \/ Interrupt
    \/ Rerun

SpecTwice == InitTwice /\ [][NextTwice]_vars


(***************************************************************************)
(* Properties                                                              *)
(***************************************************************************)
\* cleanup_torrentsdir linked the remote tasks to the listed files
Reconciled ==
    /\ Tor
    /\ \/ pc = "remove"
       \/ outcome \in {"drift", "new_items", "completed", "PermissionError"}
       \/ pc = "interrupted" /\ hist.stage = "remove"

\* the listed files of one info hash, and those with a remote task linked
Group(h) == {e \in Range(file_entries) : e.info_hash = h}
LinkedMembers(h) == {e \in Group(h) : e.torrents # <<>>}

\* the lowercase hashes and the descriptor names of the queried tasks
RemoteIdentities == {Lower(t.hashString) : t \in Range(torrents)}
RemoteDescriptorNames == {Basename(t.torrentFile) : t \in Range(torrents)}

\* listed files with no remote task linked
Orphans == {e \in Range(file_entries) : e.torrents = <<>>}

\* C1: in a group of more than one file with the same info hash, no member is
\* deleted unless exactly one member of the group is linked to a remote task.
C1_DuplicateSafety ==
    Reconciled =>
        \A h \in Dupih(file_entries) :
            Cardinality(LinkedMembers(h)) # 1 =>
                \A e \in Group(h) : Path(e) \notin removed

\* C2: when a remote task is linked to no listed file, the run deletes
\* nothing and calls remove() on nothing.
C2_DriftAbort ==
    (Tor /\ drift_torrents # <<>>) => removed = {} /\ attempted = <<>>

C2_Witness ==
    /\ Tor /\ ~dryrun /\ pc = "done"
    /\ drift_torrents # <<>>
    /\ Orphans # {}
    /\ Len(torrents) > Len(drift_torrents)

\* C3: remove() is called only in a run where the number of remote tasks plus
\* the number of listed files with no linked task equals the number of listed
\* files; when they differ nothing is deleted.
C3_Conservation ==
    (Reconciled /\ Len(torrents) + Cardinality(Orphans) # Len(tor_filenames)) =>
        removed = {} /\ attempted = <<>>

C3_Witness ==
    /\ Tor /\ ~dryrun /\ pc = "done"
    /\ Len(torrents) = 3 /\ Len(tor_filenames) = 2 /\ Cardinality(Orphans) = 1
    /\ drift_torrents = <<>>
    /\ new_items_count = 2
    /\ outcome = "new_items"
    /\ removed = {}

\* C4: no artifact written for a task the daemon added after the listing
\* began is deleted by the run.
C4_LateTaskKept == victims \cap late = {}

\* C5: remove_finished lists a task exactly when it is stopped and either
\* has a done date or is flagged finished.
C5_FinishedIffStopped ==
    (cmd = "remove_finished" /\ pc = "done") =>
        \A t \in Range(torrents) :
            t.id \in Range(finished) <=>
                \/ t.doneDate > 0 /\ t.status = "stopped"
                \/ t.isFinished /\ t.status = "stopped"

\* C6: with the dry-run flag set the process deletes no path and issues no
\* removal call to the daemon.
C6_DryRunNoEffect == dryrun => removed = {} /\ rpc_calls = <<>> /\ victims = {}

C6_Witness ==
    /\ dryrun /\ Tor /\ outcome = "completed"
    /\ printed # <<>>
    /\ \A p \in Range(printed) : KindAt(p) = "file"

\* C7 as stated: when the conservation check passes, every listed file whose
\* info hash is no remote task's hash is in the deletion set.
C7_AbsentIdentityDeleted ==
    CheckPassed =>
        \A e \in Range(file_entries) :
            e.info_hash \notin RemoteIdentities => Path(e) \in DeletionSet

\* C7 amended: when the conservation check passes, every listed file whose
\* info hash is no remote task's hash, and whose name is no remote task's
\* descriptor name, is in the deletion set.
C7_AbsentIdentityAndNameDeleted ==
    CheckPassed =>
        \A e \in Range(file_entries) :
            (e.info_hash \notin RemoteIdentities /\ e.name \notin RemoteDescriptorNames)
                => Path(e) \in DeletionSet

C7_Witness ==
    /\ CheckPassed
    /\ torrents # <<>>
    /\ \E e \in Range(file_entries) :
        /\ e.info_hash \notin RemoteIdentities
        /\ e.name \notin RemoteDescriptorNames
        /\ Path(e) \in DeletionSet

\* C8: two listed files A and B with one info hash and exactly one remote
\* task, linked to A: the deletion set holds B and not A.
C8_DuplicateResolution ==
    (Reconciled /\ Len(torrents) = 1) =>
        \A A \in Range(file_entries) : \A B \in Range(file_entries) :
            (A # B /\ A.info_hash = B.info_hash /\ A.torrents = torrents)
                => Path(B) \in DeletionSet /\ Path(A) \notin DeletionSet

C8_Witness ==
    /\ Tor /\ ~dryrun /\ outcome = "completed"
    /\ Len(torrents) = 1
    /\ \E A \in Range(file_entries) : \E B \in Range(file_entries) :
        /\ A # B /\ A.info_hash = B.info_hash /\ A.torrents = torrents
        /\ Path(B) \in removed /\ Path(A) \notin removed

\* the command is past its query and has ended
EndedAfterQuery == pc \in {"done", "crashed"} /\ Classified

\* C9: a removal that is refused does not end the run: every target of the
\* deletion set has been attempted when the run ends.
C9_DeniedDoesNotAbort == EndedAfterQuery => Targets \subseteq Range(attempted)

SecondRun == hist.run = 2 /\ hist.first.ended \in {"done", "crashed"}

\* C11 as stated: the second of two runs of a cleanup command, with nothing
\* but the first run's deletions in between, has an empty deletion set.
C11_SecondRunEmpty == SecondRun => Targets = {}

\* C11 amended: with dry-run off, after a first run that removed every path
\* of its deletion set, the second run has an empty deletion set.
C11_SecondRunEmptyAfterRemovals ==
    (SecondRun /\ ~dryrun /\ hist.first.targets \subseteq hist.first.removed)
        => Targets = {}

C11_Witness ==
    /\ SecondRun /\ ~dryrun /\ Tor
    /\ hist.first.targets # {}
    /\ hist.first.targets \subseteq hist.first.removed
    /\ torrents # <<>>
    /\ outcome = "completed"

\* the display names of the tasks the query returned
DisplayNames == {t.name : t \in Range(torrents)}

\* an entry name with one trailing '.part' taken off
Prefixes(raw) == {SubSeq(raw, 1, k) : k \in 0..Len(raw)}
IsIdentityOf(stem, raw) ==
    \/ stem \o <<".part">> = raw
    \/ stem = raw /\ \A t \in Prefixes(raw) : t \o <<".part">> # raw
IdentityInNames(raw) == \E stem \in Prefixes(raw) \cap DisplayNames : IsIdentityOf(stem, raw)

\* C12: cleanup_incompletedir hands a listed entry to remove() if and only if
\* the entry name with one trailing '.part' stripped is no display name of a
\* remote task, and an entry whose identity is a display name stays as it was.
C12_SelectsIffIdentityAbsent ==
    (cmd = "cleanup_incompletedir" /\ Classified) =>
        \A i \in 1..Len(exists_nodes) :
            LET p == exists_nodes[i].path
                raw == Basename(p)
            IN /\ i < pos =>
                    (p \in Range(attempted) <=> ~IdentityInNames(raw))
               /\ IdentityInNames(raw) =>
                    /\ p \notin Range(attempted)
                    /\ inc[raw] = hist.inc0[raw]

C12_Witness ==
    /\ cmd = "cleanup_incompletedir" /\ outcome = "completed" /\ ~dryrun
    /\ DisplayNames = {<<"x">>, <<"x", ".part">>}
    /\ Join(IncompleteDir, <<"y", ".part">>) \in removed
    /\ inc[<<"x", ".part">>] = "file"
    /\ inc[<<"x", ".part", ".part">>] = "dir"
    /\ inc[<<"x">>] = "file"

\* a file of the listing does not decode
ListedUndecodable == \E n \in Range(tor_filenames) : fs[n] = Garbage

\* one of the fatal conditions of a run holds
Fatal ==
    \/ Tor /\ ListedUndecodable
    \/ outcome = "QueryError"
    \/ Tor /\ drift_torrents # <<>>
    \/ Reconciled /\ drift_torrents = <<>> /\ new_items_count # 0

\* C13: when a listed descriptor file does not decode, or the remote query
\* fails, or a task is drifted, or the conservation count is not zero, the run
\* calls remove() for nothing and removes nothing.
C13_FatalBeforeDeletion ==
    (cmd # "remove_finished" /\ Fatal) =>
        /\ attempted = <<>>
        /\ removed = {}
        /\ fs = hist.fs0
        /\ inc = hist.inc0

C13_Witness ==
    /\ Tor /\ ~dryrun /\ pc = "crashed" /\ outcome = "DecodeError"
    /\ tasks = <<>>
    /\ fs["a.torrent"] = [kind |-> "torrent", data |-> "i1"]
    /\ fs["b.torrent"] = Garbage
    /\ Len(file_entries) = 1

\* the first run was interrupted in its removal loop, and this is the re-run
RerunAfterInterrupt ==
    hist.run = 2 /\ hist.first.ended = "interrupted" /\ hist.first.stage = "remove"

\* the directories as a first run that nobody interrupts leaves them
UninterruptedFs ==
    [n \in FileNames |->
        IF ~dryrun /\ Join(TorrentsDir, n) \in hist.first.targets
        THEN NoFile ELSE hist.fs0[n]]
UninterruptedInc ==
    [n \in IncNames |->
        IF /\ ~dryrun
           /\ Join(IncompleteDir, n) \in hist.first.targets
           /\ hist.inc0[n] \in {"file", "dir"}
        THEN "none" ELSE hist.inc0[n]]

\* C14: a run interrupted before it removed anything left the directories as
\* they were; the removals of an interrupted run stay applied; the re-run
\* after an interrupt in the removal loop does not fail, removes only targets
\* the first run had not removed, never a file with a task linked, and ends
\* with the directories as an uninterrupted run leaves them.
C14_InterruptAndRerun ==
    /\ (hist.run = 1 /\ pc = "interrupted") =>
        /\ removed = {} => fs = hist.fs0 /\ inc = hist.inc0
        /\ \A p \in removed : KindAt(p) = "none"
    /\ RerunAfterInterrupt =>
        /\ pc # "crashed"
        /\ outcome \in {"running", "completed"}
        /\ removed \subseteq hist.first.targets \ hist.first.removed
        /\ \A e \in Range(file_entries) :
            e.torrents # <<>> => Path(e) \notin removed /\ fs[e.name] = hist.fs0[e.name]
        /\ pc = "done" => fs = UninterruptedFs /\ inc = UninterruptedInc

C14_Witness ==
    /\ RerunAfterInterrupt /\ Tor /\ pc = "done"
    /\ hist.first.removed # {}
    /\ removed # {}
    /\ \E e \in Range(file_entries) : e.torrents # <<>>

\* the places of an event in the log of the run
Places(event) == {i \in 1..Len(log) : log[i] = event}

\* C15: in a cleanup run the directory is listed, and in cleanup_torrentsdir
\* every listed file read, before the one remote query is issued, nothing is
\* listed or read after it, and every call of remove() comes after it.
C15_ListQueryDelete ==
    cmd # "remove_finished" =>
        /\ \A q \in Places("get_torrents") :
            /\ \E l \in Places("listdir") : l < q
            /\ \A r \in Places("listdir") \cup Places("open") : r < q
            /\ Tor => \A n \in Range(tor_filenames) :
                        n \in {file_entries[k].name : k \in 1..Len(file_entries)}
            /\ Places("get_torrents") = {q}
        /\ \A d \in Places("remove") : \E q \in Places("get_torrents") : q < d

C15_Witness ==
    /\ Tor /\ ~dryrun /\ outcome = "completed"
    /\ Len(tor_filenames) >= 2
    /\ Len(attempted) >= 2
    /\ Places("get_torrents") = {Len(tor_filenames) + 2}

\* the listing holds a name that does not end in '.torrent'
ListedUnknownExtension == \E n \in Range(tor_filenames) : n \notin DescriptorNames

\* C16: a listed file whose extension is no descriptor extension fails the run
\* of cleanup_torrentsdir with UnknownArtifactType before remove() is called,
\* whatever the file holds.
C16_UnknownExtensionFails ==
    (Tor /\ ListedUnknownExtension) =>
        /\ attempted = <<>>
        /\ removed = {}
        /\ pc \in {"reconcile", "remove", "done", "crashed"}
                => outcome = "UnknownArtifactType"

\* the listed files a task is linked to, the listed files of its descriptor
\* name, and how often an entry holds it
LinkedTo(t) == {e \in Range(file_entries) : t \in Range(e.torrents)}
Named(t) == {e \in Range(file_entries) : e.name = Basename(t.torrentFile)}
TimesIn(e, t) == Cardinality({k \in 1..Len(e.torrents) : e.torrents[k] = t})
Drifted(t) == t \in Range(drift_torrents)

\* C17: after the linking loop each remote task is either linked once to one
\* listed file or drifted, never both: linked to the file named like its
\* torrentFile when there is one, else to the only file of its info hash when
\* there is exactly one, else drifted.
C17_LinkingRule ==
    Reconciled =>
        \A t \in Range(torrents) :
            /\ \/ /\ ~Drifted(t)
                  /\ Cardinality(LinkedTo(t)) = 1
                  /\ \A e \in LinkedTo(t) : TimesIn(e, t) = 1
               \/ Drifted(t) /\ LinkedTo(t) = {}
            /\ Named(t) # {} => LinkedTo(t) = Named(t)
            /\ (Named(t) = {} /\ Cardinality(Group(Lower(t.hashString))) = 1)
                    => LinkedTo(t) = Group(Lower(t.hashString))
            /\ (Named(t) = {} /\ Cardinality(Group(Lower(t.hashString))) # 1)
                    => Drifted(t)

C17_Witness ==
    /\ Reconciled
    /\ \E t \in Range(torrents) :
        /\ Cardinality(Named(t)) = 1
        /\ Cardinality(Group(Lower(t.hashString))) = 1
        /\ Named(t) # Group(Lower(t.hashString))
        /\ LinkedTo(t) = Named(t)
    /\ \E t \in Range(torrents) :
        Named(t) = {} /\ LinkedTo(t) = Group(Lower(t.hashString)) /\ LinkedTo(t) # {}
    /\ drift_torrents # <<>>

\* C18: every path cleanup_torrentsdir hands to remove(), and so every path
\* it deletes, is a file of its own listing with no remote task linked; a
\* file with a task linked, and a file that is not in the listing, is never
\* deleted.
C18_DeletesOnlyListedUnlinked ==
    Tor =>
        /\ \A p \in removed \cup Range(attempted) :
            \E e \in Range(file_entries) :
                /\ Path(e) = p
                /\ e.torrents = <<>>
                /\ e.name \in Range(tor_filenames)
        /\ \A e \in Range(file_entries) : e.torrents # <<>> => Path(e) \notin removed
        /\ \A n \in FileNames \ Range(tor_filenames) : Join(TorrentsDir, n) \notin removed

C18_Witness ==
    /\ Tor /\ outcome = "completed"
    /\ removed # {}
    /\ \E e \in Range(file_entries) : e.torrents # <<>> /\ fs[e.name] # NoFile
    /\ Range(tor_filenames) # FileNames

\* the most tasks linked to one listed file
NoFileSharesTasks == \A e \in Range(file_entries) : Len(e.torrents) <= 1

\* C19: with no task drifted, new_items_count = len(torrents) +
\* len(remove_list) - len(tor_filenames) is not negative, it is zero exactly
\* when no listed file has more than one task linked, and the removal loop is
\* entered exactly then.
C19_ConservationCount ==
    (Reconciled /\ drift_torrents = <<>>) =>
        /\ new_items_count = Len(torrents) + Len(remove_list) - Len(tor_filenames)
        /\ new_items_count >= 0
        /\ new_items_count = 0 <=> NoFileSharesTasks
        /\ CheckPassed <=> NoFileSharesTasks

C19_Witness ==
    /\ Reconciled /\ drift_torrents = <<>> /\ outcome = "new_items"
    /\ new_items_count = 2
    /\ remove_list # <<>>
    /\ \E e \in Range(file_entries) : Len(e.torrents) = 3

\* C20: cleanup_incompletedir removes no entry whose name on disk is the
\* display name of a task the query returned, a name ending in '.part'
\* included.
C20_RawNameOfTaskKept ==
    cmd = "cleanup_incompletedir" =>
        \A p \in removed \cup Range(attempted) : Basename(p) \notin DisplayNames

====
